---- MODULE Spec2Model ----
(***************************************************************************)
(* aws_doorman: keeping an AWS managed prefix list (or security group) in  *)
(* sync with the caller's public IP.                                       *)
(*                                                                         *)
(*   Spec         the reconciliation engine of src/aws/mod.rs: a caller    *)
(*                that calls update_ips again and again, refreshing its    *)
(*                snapshot, against a versioned remote list                *)
(*   SpecDiff     one invocation of update_ips on any snapshot and any     *)
(*                desired set                                              *)
(*   SpecFetch    get_prefix_list: describe + paginated entries, and       *)
(*                get_only_item of src/aws/helpers.rs                      *)
(*   SpecClassify the error classifier of src/aws/error.rs and ec2.rs      *)
(*   SpecLoop     the poll loop of src/main.rs                             *)
(*   SpecLookup   ips_for_rule_in_sg of src/aws/helpers.rs                 *)
(***************************************************************************)
EXTENDS Integers, Sequences, FiniteSets, TLC

VARIABLES
    remote,   \* the managed prefix list held by AWS: every version's entries
    eng,      \* a caller of update_ips: its snapshot and the calls it made
    fetch,    \* one run of get_prefix_list
    cls,      \* one error handed to the classifier
    loop,     \* the poll loop of main.rs
    lookup    \* one call of ips_for_rule_in_sg

vars == <<remote, eng, fetch, cls, loop, lookup>>

(***************************************************************************)
(* Bounds                                                                  *)
(***************************************************************************)
MaxEntries == 2      \* entries of the list at start-up
MaxVersion == 3      \* versions the remote list goes through
MaxLists == 2        \* prefix lists one describe answer holds
MaxPage == 2         \* entries one page of an answer holds
MaxErrors == 2       \* children of the Errors node of an error body
MaxTicks == 2        \* ticks of the poll loop's timer
MaxPerms == 2        \* permissions of a security group
MaxRanges == 2       \* IP ranges of a permission

(***************************************************************************)
(* Option<T>: None is the empty sequence, Some(x) the one-element sequence *)
(***************************************************************************)
NoneV == <<>>
Some(x) == <<x>>
IsSome(o) == Len(o) = 1
IsNone(o) == Len(o) = 0
Unwrap(o) == o[1]

(***************************************************************************)
(* Strings that are compared character by character are sequences of       *)
(* one-character strings. "U+00C9" and "U+00E9" stand for the two          *)
(* non-ASCII characters E-acute (upper case) and e-acute (lower case).     *)
(***************************************************************************)
AsciiUpper == <<"A", "B", "C", "D", "E", "F", "G", "H", "I", "J", "K", "L", "M",
                "N", "O", "P", "Q", "R", "S", "T", "U", "V", "W", "X", "Y", "Z">>
AsciiLower == <<"a", "b", "c", "d", "e", "f", "g", "h", "i", "j", "k", "l", "m",
                "n", "o", "p", "q", "r", "s", "t", "u", "v", "w", "x", "y", "z">>

\* the letters A..Z
AsciiUpperSet == { AsciiUpper[i] : i \in 1..26 }

\* u8::to_ascii_lowercase / char::to_ascii_lowercase: only A..Z change
to_ascii_lowercase(c) ==
    IF c \in AsciiUpperSet
    THEN AsciiLower[CHOOSE i \in 1..26 : AsciiUpper[i] = c]
    ELSE c

\* a plausible bug: a plain, case-sensitive comparison
eq_case_sensitive(a, b) == a = b

\* str::eq_ignore_ascii_case
eq_ignore_ascii_case(a, b) ==
    /\ Len(a) = Len(b)
    /\ \A i \in 1..Len(a) : to_ascii_lowercase(a[i]) = to_ascii_lowercase(b[i])

(***************************************************************************)
(* Data                                                                    *)
(***************************************************************************)
\* AWSClient.entry_description, the ownership tag ("t" followed by e-acute)
entry_description == <<"t", "U+00E9">>

CidrPool == {"1.2.3.4/32", "5.6.7.8/32", "10.0.0.0/8"}
CidrOrder == <<"1.2.3.4/32", "5.6.7.8/32", "10.0.0.0/8">>

\* descriptions an entry may carry: the tag, the tag in another ASCII case, the
\* tag with its non-ASCII character in the other case, a prefix of the tag
DescPool == { <<"t", "U+00E9">>, <<"T", "U+00E9">>, <<"t", "U+00C9">>, <<"t">> }

OptCidr == {NoneV} \cup {Some(c) : c \in CidrPool}
OptDesc == {NoneV} \cup {Some(d) : d \in DescPool}

\* rusoto_ec2::PrefixListEntry
PrefixListEntry == [cidr : OptCidr, description : OptDesc]

RECURSIVE SeqsUpTo(_, _)
SeqsUpTo(S, n) ==
    IF n = 0 THEN { <<>> }
    ELSE LET shorter == SeqsUpTo(S, n - 1)
         IN  shorter \cup { Append(s, x) : s \in { t \in shorter : Len(t) = n - 1 }, x \in S }

\* the remote keeps one entry per CIDR
DistinctCidrs(es) == \A i, j \in 1..Len(es) : es[i].cidr = es[j].cidr => i = j

EntryLists == { es \in SeqsUpTo(PrefixListEntry, MaxEntries) : DistinctCidrs(es) }

(***************************************************************************)
(* The remote list. remote.versions[v] are the entries of version v; the   *)
(* current version is the last one. An accepted modify leaves the list in  *)
(* state modify-in-progress, with the new entries pending; they become the *)
(* next version when the remote completes the modify.                      *)
(***************************************************************************)
RemoteStart(es) == [versions |-> <<es>>, state |-> "create-complete", pending |-> NoneV]
RemoteVersion(r) == Len(r.versions)
RemoteEntries(r) == r.versions[Len(r.versions)]

\* rusoto_ec2::ManagedPrefixList as describe and modify return it
ManagedPrefixList(r) == [version |-> Some(RemoteVersion(r)), state |-> Some(r.state)]

SetToSeq(S) == SelectSeq(CidrOrder, LAMBDA c : c \in S)
CidrsOf(entries) == { e.cidr : e \in entries }

\* the entries after an accepted modify: the removed CIDRs are gone, the added
\* entries are there, an added CIDR that was present takes the new description
ApplyModify(r, req) ==
    LET add    == Unwrap(req.add_entries)
        gone   == CidrsOf(Unwrap(req.remove_entries)) \cup CidrsOf(add)
        kept   == SelectSeq(RemoteEntries(r), LAMBDA e : e.cidr \notin gone)
        added  == SetToSeq({ Unwrap(e.cidr) : e \in add })
        fresh  == [ i \in 1..Len(added) |->
                      CHOOSE e \in add : e.cidr = Some(added[i]) ]
    IN  kept \o fresh

\* the list with a modify accepted
Accepted(r, req) ==
    [r EXCEPT !.state = "modify-in-progress", !.pending = Some(ApplyModify(r, req))]

\* the list with the pending modify completed: a new version
Completed(r) ==
    [ versions |-> Append(r.versions, Unwrap(r.pending)),
      state    |-> "modify-complete",
      pending  |-> NoneV ]

\* the list with a new version written by somebody else
Written(r, es) ==
    [ versions |-> Append(r.versions, es), state |-> "modify-complete", pending |-> NoneV ]

\* a failure of the call other than a stale version
ModifyErrors == {"Unknown"}

\* what the remote may answer to a modify request: a stale current_version is
\* always rejected, and so is a modify while another is in progress; anything
\* else may be rejected or accepted
RemoteModify(r, req) ==
    IF req.current_version # Some(RemoteVersion(r))
    THEN { [ remote |-> r, result |-> [ok |-> FALSE, err |-> "VersionConflict"] ] }
    ELSE IF r.state = "modify-in-progress"
    THEN { [ remote |-> r, result |-> [ok |-> FALSE, err |-> "IncorrectState"] ] }
    ELSE { [ remote |-> r, result |-> [ok |-> FALSE, err |-> e] ] : e \in ModifyErrors }
         \cup
         { [ remote |-> Accepted(r, req),
             result |-> [ok |-> TRUE, mpl |-> ManagedPrefixList(Accepted(r, req))] ] }

(***************************************************************************)
(* src/aws/mod.rs                                                          *)
(***************************************************************************)
\* struct PrefixList: the local cache of the list and its entries
PrefixList(mpl, entries) ==
    [ managed_prefix_list |-> mpl, managed_prefix_entries |-> entries ]

\* get_prefix_list seen as one step: the entries are requested at the version
\* describe returned, so the snapshot is the list as it was at describe
SnapshotOf(r) == PrefixList(ManagedPrefixList(r), RemoteEntries(r))

\* a plausible bug: the description is not looked at
get_managed_ips_all(p) ==
    { Unwrap(p.managed_prefix_entries[i].cidr) :
        i \in { j \in DOMAIN p.managed_prefix_entries :
                  IsSome(p.managed_prefix_entries[j].cidr) } }

\* a plausible bug: the description is compared case-sensitively
get_managed_ips_exact(p) ==
    { Unwrap(p.managed_prefix_entries[i].cidr) :
        i \in { j \in DOMAIN p.managed_prefix_entries :
                  LET entry == p.managed_prefix_entries[j]
                  IN  /\ IsSome(entry.description)
                      /\ eq_case_sensitive(Unwrap(entry.description), entry_description)
                      /\ IsSome(entry.cidr) } }

\* AWSClient::get_managed_ips
get_managed_ips(p) ==
    { Unwrap(p.managed_prefix_entries[i].cidr) :
        i \in { j \in DOMAIN p.managed_prefix_entries :
                  LET entry == p.managed_prefix_entries[j]
                  IN  /\ IsSome(entry.description)
                      /\ eq_ignore_ascii_case(Unwrap(entry.description), entry_description)
                      /\ IsSome(entry.cidr) } }

\* a plausible bug: the added entries are not given the description
modify_request_untagged(prefix_list, add_ips, remove_ips) ==
    [ current_version |-> prefix_list.managed_prefix_list.version,
      add_entries     |-> IF IsNone(add_ips) THEN NoneV
                          ELSE Some({ [cidr |-> Some(c), description |-> NoneV]
                                        : c \in Unwrap(add_ips) }),
      remove_entries  |-> IF IsNone(remove_ips) THEN NoneV
                          ELSE Some({ [cidr |-> Some(c)] : c \in Unwrap(remove_ips) }) ]

\* a plausible bug: the request removes nothing
modify_request_keeps(prefix_list, add_ips, remove_ips) ==
    [ current_version |-> prefix_list.managed_prefix_list.version,
      add_entries     |-> IF IsNone(add_ips) THEN NoneV
                          ELSE Some({ [cidr |-> Some(c), description |-> Some(entry_description)]
                                        : c \in Unwrap(add_ips) }),
      remove_entries  |-> Some({}) ]

\* AWSClient::modify_managed_prefix_list, the request it builds
modify_request(prefix_list, add_ips, remove_ips) ==
    [ current_version |-> prefix_list.managed_prefix_list.version,
      add_entries     |-> IF IsNone(add_ips) THEN NoneV
                          ELSE Some({ [cidr |-> Some(c), description |-> Some(entry_description)]
                                        : c \in Unwrap(add_ips) }),
      remove_entries  |-> IF IsNone(remove_ips) THEN NoneV
                          ELSE Some({ [cidr |-> Some(c)] : c \in Unwrap(remove_ips) }) ]

\* a plausible bug: on a failure the list is described again and the modify is
\* sent once more with the version just read
modify_managed_prefix_list_retry(r, prefix_list, add_ips, remove_ips) ==
    LET req == modify_request(prefix_list, add_ips, remove_ips)
        again == [req EXCEPT !.current_version = Some(RemoteVersion(r))]
    IN  { [ remote |-> a.remote,
            result |-> a.result,
            rpc    |-> <<[op |-> "modify", req |-> req]>> ] :
              a \in { x \in RemoteModify(r, req) : x.result.ok } }
        \cup
        { [ remote |-> b.remote,
            result |-> b.result,
            rpc    |-> << [op |-> "modify", req |-> req],
                          [op |-> "describe", req |-> req],
                          [op |-> "modify", req |-> again] >> ] :
              b \in UNION { RemoteModify(a.remote, again) :
                              a \in { x \in RemoteModify(r, req) : ~x.result.ok } } }

\* AWSClient::modify_managed_prefix_list: one request, whose answer is handed
\* back as it is; rpc lists the remote calls made
modify_managed_prefix_list(r, prefix_list, add_ips, remove_ips) ==
    LET req == modify_request(prefix_list, add_ips, remove_ips)
    IN  { [ remote |-> a.remote,
            result |-> a.result,
            rpc    |-> <<[op |-> "modify", req |-> req]>> ] : a \in RemoteModify(r, req) }

\* AWSClient::update_ips, the two sets it computes
update_ips_diff(p, ips) ==
    LET managed_ips == get_managed_ips(p)
    IN  [ ips_to_add |-> ips \ managed_ips, ips_to_remove |-> managed_ips \ ips ]

\* the outcome o of the modify call, with the two sets the call was made for
WithDiff(o, d) ==
    [ remote |-> o.remote, result |-> o.result, rpc |-> o.rpc,
      ips_to_add |-> d.ips_to_add, ips_to_remove |-> d.ips_to_remove ]

\* a plausible bug: the modify call is made even when there is nothing to do
update_ips_always(r, p, ips) ==
    LET d == update_ips_diff(p, ips)
    IN  { WithDiff(o, d) :
            o \in modify_managed_prefix_list(r, p, Some(d.ips_to_add), Some(d.ips_to_remove)) }

\* AWSClient::update_ips: every outcome of one call against remote r
update_ips(r, p, ips) ==
    LET d == update_ips_diff(p, ips)
    IN  IF d.ips_to_add = {} /\ d.ips_to_remove = {}
        THEN { WithDiff([ remote |-> r,
                          result |-> [ok |-> FALSE, err |-> "NothingToDo"],
                          rpc    |-> <<>> ], d) }
        ELSE { WithDiff(o, d) :
                 o \in modify_managed_prefix_list(r, p, Some(d.ips_to_add),
                                                  Some(d.ips_to_remove)) }

(***************************************************************************)
(* Spec and SpecDiff: a caller holding a snapshot calls update_ips, may    *)
(* refresh the snapshot, while another writer may change the list.         *)
(***************************************************************************)
IdleFetch == [pc |-> "off"]
IdleCls == [pc |-> "off"]
IdleLoop == [pc |-> "off"]
IdleEng == [pc |-> "off"]
IdleLookup == [pc |-> "off"]

\* lists of entries that all have a CIDR and carry the tag (in another case) or
\* a description that is not the tag
StartLists ==
    { es \in EntryLists :
        \A i \in DOMAIN es :
          /\ IsSome(es[i].cidr)
          /\ es[i].description \in { Some(<<"T", "U+00E9">>), Some(<<"t", "U+00C9">>) } }

EngStart(budget) ==
    [ pc      |-> "ready",
      pl      |-> SnapshotOf(remote),
      budget  |-> budget,    \* update_ips calls the caller makes
      calls   |-> 0,
      last    |-> NoneV,     \* the last update_ips call
      prev    |-> NoneV,     \* the one before it
      between |-> "none" ]   \* what happened since the last call

InitEng ==
    /\ \E es \in StartLists : remote = RemoteStart(es)
    /\ eng = EngStart(2)        \* two calls in succession
    /\ fetch = IdleFetch /\ cls = IdleCls /\ loop = IdleLoop /\ lookup = IdleLookup

InitDiff ==
    /\ \E es \in EntryLists : remote = RemoteStart(es)
    /\ eng = EngStart(1)        \* one invocation
    /\ fetch = IdleFetch /\ cls = IdleCls /\ loop = IdleLoop /\ lookup = IdleLookup

\* one call of update_ips(pl, ips) with the snapshot the caller holds
UpdateIps ==
    /\ eng.pc = "ready"
    /\ eng.calls < eng.budget
    /\ \E ips \in SUBSET CidrPool :
         \E o \in update_ips(remote, eng.pl, ips) :
           /\ remote' = o.remote
           /\ eng' = [ eng EXCEPT
                         !.calls = @ + 1,
                         !.prev = eng.last,
                         !.between = "none",
                         !.last = Some([ pl             |-> eng.pl,
                                         ips            |-> ips,
                                         remote_version |-> RemoteVersion(remote),
                                         since          |-> eng.between,
                                         ips_to_add     |-> o.ips_to_add,
                                         ips_to_remove  |-> o.ips_to_remove,
                                         result         |-> o.result,
                                         rpc            |-> o.rpc ]) ]
    /\ UNCHANGED <<fetch, cls, loop, lookup>>

\* the remote completes the modify it accepted
RemoteComplete ==
    /\ remote.state = "modify-in-progress"
    /\ remote' = Completed(remote)
    /\ UNCHANGED <<eng, fetch, cls, loop, lookup>>

\* the caller, once the list is out of modify-in-progress, replaces its
\* snapshot by a freshly fetched one
Refresh ==
    /\ eng.pc = "ready"
    /\ eng.calls < eng.budget
    /\ remote.state # "modify-in-progress"
    /\ eng.pl # SnapshotOf(remote)
    /\ eng' = [ eng EXCEPT !.pl = SnapshotOf(remote),
                           !.between = IF @ = "none" THEN "refresh" ELSE @ ]
    /\ UNCHANGED <<remote, fetch, cls, loop, lookup>>

\* another writer removes the last entry, or adds one for the first CIDR the
\* list does not hold
OtherWriterEdits(es) ==
    LET absent == SelectSeq(CidrOrder, LAMBDA c : \A i \in DOMAIN es : es[i].cidr # Some(c))
    IN  (IF es = <<>> THEN {} ELSE { SubSeq(es, 1, Len(es) - 1) })
        \cup
        (IF absent = <<>> THEN {}
         ELSE { Append(es, [cidr |-> Some(absent[1]),
                            description |-> Some(entry_description)]) })

\* another writer changes the list: a new version
OtherWriter ==
    /\ eng.pc = "ready"
    /\ eng.calls < eng.budget
    /\ remote.state # "modify-in-progress"
    /\ RemoteVersion(remote) < MaxVersion
    /\ \E es \in OtherWriterEdits(RemoteEntries(remote)) :
         remote' = Written(remote, es)
    /\ eng' = [ eng EXCEPT !.between = "other" ]
    /\ UNCHANGED <<fetch, cls, loop, lookup>>

Next == UpdateIps \/ RemoteComplete \/ Refresh \/ OtherWriter

Spec == InitEng /\ [][Next]_vars

SpecDiff == InitDiff /\ [][Next]_vars

(***************************************************************************)
(* Properties of update_ips                                                *)
(***************************************************************************)
\* what the properties call the tag: a description carries it when the two are
\* equal once the letters A..Z are read as a..z
Folded(d) ==
    [ i \in DOMAIN d |->
        IF d[i] \in AsciiUpperSet
        THEN AsciiLower[CHOOSE k \in 1..26 : AsciiUpper[k] = d[i]]
        ELSE d[i] ]
FoldedTag == Folded(entry_description)
CarriesTag(e) == IsSome(e.description) /\ Folded(e.description[1]) = FoldedTag
\* the CIDRs of the entries of S that carry the tag
Owned(S) ==
    { S.managed_prefix_entries[i].cidr[1] :
        i \in { j \in DOMAIN S.managed_prefix_entries :
                  /\ IsSome(S.managed_prefix_entries[j].cidr)
                  /\ CarriesTag(S.managed_prefix_entries[j]) } }
\* the CIDRs of the entries of S that do not carry the tag
Foreign(S) ==
    { S.managed_prefix_entries[i].cidr[1] :
        i \in { j \in DOMAIN S.managed_prefix_entries :
                  /\ IsSome(S.managed_prefix_entries[j].cidr)
                  /\ ~CarriesTag(S.managed_prefix_entries[j]) } }

Called == IsSome(eng.last)
Last == eng.last[1]
Prev == eng.prev[1]
\* the modify requests a call sent
ModifyRequests(call) ==
    SelectSeq(call.rpc, LAMBDA x : x.op = "modify")
AddedCidrs(req) == { Unwrap(e.cidr) : e \in Unwrap(req.add_entries) }
RemovedCidrs(req) == { Unwrap(e.cidr) : e \in Unwrap(req.remove_entries) }

\* C1: for every snapshot S and desired set D, update_ips computes
\* to_add = D minus owned(S) and to_remove = owned(S) minus D, owned(S) being the
\* CIDRs of the entries whose description equals the tag up to (ASCII) case; an
\* entry without a description is not owned. A request that is sent carries
\* exactly these two sets.
C1_DiffCorrect ==
    Called =>
      /\ Last.ips_to_add = Last.ips \ Owned(Last.pl)
      /\ Last.ips_to_remove = Owned(Last.pl) \ Last.ips
      /\ \A i \in DOMAIN Last.rpc :
           Last.rpc[i].op = "modify" =>
             /\ AddedCidrs(Last.rpc[i].req) = Last.ips \ Owned(Last.pl)
             /\ RemovedCidrs(Last.rpc[i].req) = Owned(Last.pl) \ Last.ips

\* C1 witness: a call whose snapshot holds an entry owned through another case
\* of the tag, an entry without description and one to add
C1_Witness ==
    /\ Called
    /\ Last.ips_to_add # {}
    /\ Last.ips_to_remove # {}
    /\ \E i \in DOMAIN Last.pl.managed_prefix_entries :
         LET e == Last.pl.managed_prefix_entries[i]
         IN  e.description = Some(<<"T", "U+00E9">>) /\ IsSome(e.cidr)
               /\ Unwrap(e.cidr) \in Last.ips_to_remove
    /\ \E i \in DOMAIN Last.pl.managed_prefix_entries :
         LET e == Last.pl.managed_prefix_entries[i]
         IN  IsNone(e.description) /\ IsSome(e.cidr)
    /\ Len(Last.rpc) = 1

C3_NothingToDo ==
    Called =>
      IF Last.ips = Owned(Last.pl)
      THEN /\ ~Last.result.ok /\ Last.result.err = "NothingToDo"
           /\ Last.rpc = <<>>
      ELSE /\ Len(ModifyRequests(Last)) = 1
           /\ (~Last.result.ok => Last.result.err # "NothingToDo")

\* C3 witness: a call with a non-empty desired set that is the owned set
C3_Witness ==
    /\ Called
    /\ Last.ips # {}
    /\ Last.ips = Owned(Last.pl)
    /\ Last.result.err = "NothingToDo"

C8_NoHiddenRetry ==
    Called =>
      /\ Len(Last.rpc) <= 1
      /\ \A i \in DOMAIN Last.rpc : Last.rpc[i].op = "modify"
      /\ (Last.rpc # <<>> /\ Last.pl.managed_prefix_list.version # Some(Last.remote_version))
           => /\ ~Last.result.ok /\ Last.result.err = "VersionConflict"
              /\ RemoteVersion(remote) = Last.remote_version
              /\ remote.state # "modify-in-progress"

\* C8 witness: a call with a stale snapshot whose modify was rejected
C8_Witness ==
    /\ Called
    /\ Len(Last.rpc) = 1
    /\ Last.pl.managed_prefix_list.version # Some(Last.remote_version)
    /\ ~Last.result.ok /\ Last.result.err = "VersionConflict"

(***************************************************************************)
(* get_prefix_list: describe, then the entries page by page                *)
(***************************************************************************)
\* what the remote answers to describe_managed_prefix_lists: an error, or
\* lists (none, or `count` times the list) with or without a next token
DescribeStubs ==
    { [kind |-> "err", next_token |-> NoneV, lists |-> NoneV] }
    \cup
    { [kind |-> "ok", next_token |-> t, lists |-> l] :
        t \in { NoneV, Some("more") },
        l \in { NoneV } \cup { Some(n) : n \in 0..MaxLists } }

\* the answer of the remote r when it behaves as stub says
DescribeAnswer(r, stub) ==
    IF stub.kind = "err"
    THEN [ok |-> FALSE, err |-> "Unknown"]
    ELSE [ ok |-> TRUE,
           next_token   |-> stub.next_token,
           prefix_lists |-> IF IsNone(stub.lists) THEN NoneV
                            ELSE Some([ i \in 1..Unwrap(stub.lists) |-> ManagedPrefixList(r) ]) ]

\* a plausible bug: the first list is taken whenever there is one
get_managed_prefix_list_first(answer) ==
    IF ~answer.ok THEN [ok |-> FALSE, err |-> answer.err]
    ELSE IF IsNone(answer.prefix_lists) \/ Len(Unwrap(answer.prefix_lists)) = 0
    THEN [ok |-> FALSE, err |-> "CardinalityNone"]
    ELSE [ok |-> TRUE, mpl |-> Unwrap(answer.prefix_lists)[1]]

\* AWSClient::get_managed_prefix_list, from the answer of describe on
get_managed_prefix_list(answer) ==
    IF ~answer.ok THEN [ok |-> FALSE, err |-> answer.err]
    ELSE IF IsSome(answer.next_token)
    THEN [ok |-> FALSE, err |-> "CardinalityTooMany"]
    ELSE IF IsNone(answer.prefix_lists)
    THEN [ok |-> FALSE, err |-> "CardinalityNone"]
    ELSE LET mpl_vec == Unwrap(answer.prefix_lists)
         IN  IF Len(mpl_vec) = 0 THEN [ok |-> FALSE, err |-> "CardinalityNone"]
             ELSE IF Len(mpl_vec) = 1 THEN [ok |-> TRUE, mpl |-> mpl_vec[1]]
             ELSE [ok |-> FALSE, err |-> "CardinalityTooMany"]

\* helpers::get_only_item
get_only_item(item_vec) ==
    IF IsSome(item_vec) /\ Len(Unwrap(item_vec)) = 1
    THEN [ok |-> TRUE, item |-> Unwrap(item_vec)[1]]
    ELSE IF IsSome(item_vec) /\ Len(Unwrap(item_vec)) > 1
    THEN [ok |-> FALSE, err |-> "CardinalityTooMany"]
    ELSE [ok |-> FALSE, err |-> "CardinalityNone"]

\* a plausible bug: the token of the previous page is not passed on
entries_request_no_token(next_token, version) ==
    [ next_token |-> NoneV, target_version |-> version ]

\* a plausible bug: the entries are requested without target version
entries_request_latest(next_token, version) ==
    [ next_token |-> next_token, target_version |-> NoneV ]

\* AWSClient::get_managed_prefix_entries, the request of one turn of its loop
entries_request(next_token, version) ==
    [ next_token |-> next_token, target_version |-> version ]

\* what the remote may answer to get_managed_prefix_list_entries: an error, a
\* response without entries, or a page of the entries of the requested version
\* (of the current version when the request names none), from the place the
\* token names on, with a token for the rest when the page does not hold all
\* of it
RemoteListEntries(r, req) ==
    LET es   == IF IsNone(req.target_version) THEN RemoteEntries(r)
                ELSE r.versions[Unwrap(req.target_version)]
        from == IF IsNone(req.next_token) THEN 0 ELSE Unwrap(req.next_token)
        left == Len(es) - from
    IN  { [ok |-> FALSE, err |-> "Unknown"],
          [ok |-> TRUE, entries |-> NoneV, next_token |-> NoneV] }
        \cup
        { [ ok         |-> TRUE,
            entries    |-> Some(SubSeq(es, from + 1, from + n)),
            next_token |-> IF from + n < Len(es) THEN Some(from + n) ELSE NoneV ] :
            n \in { k \in 0..MaxPage : IF left = 0 THEN k = 0 ELSE k >= 1 /\ k <= left } }

\* AWSClient::get_managed_prefix_entries, one turn of its loop on the answer
\* (`?` on an error, unwrap of the entries), and get_prefix_list's result when
\* the loop ends
entries_turn(f, answer) ==
    IF ~answer.ok
    THEN [ f EXCEPT !.pc = "done", !.result = [ok |-> FALSE, err |-> answer.err] ]
    ELSE IF IsNone(answer.entries)
    THEN [ f EXCEPT !.pc = "done", !.result = [ok |-> FALSE, err |-> "Panic"] ]
    ELSE IF IsNone(answer.next_token)
    THEN [ f EXCEPT !.pc = "done",
                    !.entries = f.entries \o Unwrap(answer.entries),
                    !.result = [ ok |-> TRUE,
                                 pl |-> PrefixList(f.mpl, f.entries \o Unwrap(answer.entries)) ] ]
    ELSE [ f EXCEPT !.entries = f.entries \o Unwrap(answer.entries),
                    !.next_token = answer.next_token ]

NoResult == [ok |-> FALSE, err |-> "pending"]

InitFetch ==
    /\ \E es \in StartLists : remote = RemoteStart(es)
    /\ \E stub \in DescribeStubs :
         fetch = [ pc         |-> "describe",
                   stub       |-> stub,        \* how the remote answers describe
                   answer     |-> NoneV,       \* its answer
                   mpl        |-> ManagedPrefixList(remote),
                   entries    |-> <<>>,
                   next_token |-> NoneV,
                   result     |-> NoResult,
                   only_item  |-> NoneV,       \* get_only_item on the answer's lists
                   calls      |-> <<>> ]       \* the list_entries calls, their answers,
                                               \* the list's version at the time
    /\ eng = IdleEng /\ cls = IdleCls /\ loop = IdleLoop /\ lookup = IdleLookup

\* get_prefix_list up to the answer of describe
Describe ==
    /\ fetch.pc = "describe"
    /\ LET answer == DescribeAnswer(remote, fetch.stub)
           res    == get_managed_prefix_list(answer)
       IN  fetch' = IF res.ok
                    THEN [ fetch EXCEPT !.pc = "entries", !.answer = Some(answer),
                                        !.mpl = res.mpl ]
                    ELSE [ fetch EXCEPT !.pc = "done", !.answer = Some(answer),
                                        !.result = res ]
    /\ UNCHANGED <<remote, eng, cls, loop, lookup>>

\* one turn of the loop of get_managed_prefix_entries
ListEntries ==
    /\ fetch.pc = "entries"
    /\ LET req == entries_request(fetch.next_token, fetch.mpl.version)
       IN  \E answer \in RemoteListEntries(remote, req) :
             fetch' = [ entries_turn(fetch, answer) EXCEPT
                          !.calls = Append(@, [ req            |-> req,
                                                answer         |-> answer,
                                                remote_version |-> RemoteVersion(remote) ]) ]
    /\ UNCHANGED <<remote, eng, cls, loop, lookup>>

\* get_only_item on the lists of the answer of describe
GetOnlyItem ==
    /\ IsSome(fetch.answer) /\ Unwrap(fetch.answer).ok
    /\ IsNone(fetch.only_item)
    /\ fetch' = [ fetch EXCEPT
                    !.only_item = Some(get_only_item(Unwrap(fetch.answer).prefix_lists)) ]
    /\ UNCHANGED <<remote, eng, cls, loop, lookup>>

\* another writer changes the list while get_prefix_list runs
OtherWriterDuringFetch ==
    /\ fetch.pc \in {"describe", "entries"}
    /\ remote.state # "modify-in-progress"
    /\ RemoteVersion(remote) < MaxVersion
    /\ \E es \in OtherWriterEdits(RemoteEntries(remote)) :
         remote' = Written(remote, es)
    /\ UNCHANGED <<fetch, eng, cls, loop, lookup>>

NextFetch == Describe \/ ListEntries \/ GetOnlyItem \/ OtherWriterDuringFetch

SpecFetch == InitFetch /\ [][NextFetch]_vars

(***************************************************************************)
(* Properties of get_prefix_list and get_only_item                         *)
(***************************************************************************)
RECURSIVE ConcatPages(_)
ConcatPages(calls) ==
    IF calls = <<>> THEN <<>>
    ELSE ConcatPages(SubSeq(calls, 1, Len(calls) - 1))
           \o Unwrap(calls[Len(calls)].answer.entries)

AllPagesServed == \A i \in DOMAIN fetch.calls : fetch.calls[i].answer.ok

\* C5: when the remote serves N pages, each but the last with a next token,
\* get_managed_prefix_entries returns the pages' entries concatenated in the
\* order of arrival, after exactly N calls made one after the other: it
\* stops at the first page without token and not before; the first call
\* carries no token and each later call the token of the page before
C5_Pagination ==
    /\ \A i \in DOMAIN fetch.calls :
         /\ fetch.calls[i].req.next_token =
              IF i = 1 THEN NoneV ELSE fetch.calls[i - 1].answer.next_token
         /\ (i < Len(fetch.calls)) =>
              fetch.calls[i].answer.ok /\ IsSome(fetch.calls[i].answer.next_token)
         /\ fetch.calls[i].req.target_version = fetch.mpl.version
    /\ (fetch.pc = "entries" /\ fetch.calls # <<>>) =>
         /\ AllPagesServed
         /\ IsSome(fetch.calls[Len(fetch.calls)].answer.next_token)
         /\ fetch.entries = ConcatPages(fetch.calls)
    /\ (fetch.pc = "done" /\ fetch.result.ok) =>
         /\ fetch.calls # <<>> /\ AllPagesServed
         /\ IsNone(fetch.calls[Len(fetch.calls)].answer.next_token)
         /\ fetch.result.pl.managed_prefix_entries = ConcatPages(fetch.calls)
         /\ fetch.result.pl.managed_prefix_entries
              = remote.versions[Unwrap(fetch.result.pl.managed_prefix_list.version)]

\* C5 witness: a list of three entries fetched in three pages
C5_Witness ==
    /\ fetch.pc = "done" /\ fetch.result.ok
    /\ Len(fetch.calls) = 3
    /\ Len(fetch.result.pl.managed_prefix_entries) = 3

\* C6: get_managed_prefix_list succeeds only on an answer without next token
\* that holds exactly one list; no lists (absent or empty) give the Cardinality
\* "none" error, two or more lists or a next token the "too many" error, and
\* on an error no entries are requested and no snapshot is returned.
\* get_only_item: exactly one item is returned, none gives None, more TooMany.
C6_Singleton ==
    /\ IsSome(fetch.answer) /\ Unwrap(fetch.answer).ok =>
         LET a == Unwrap(fetch.answer)
             n == IF IsNone(a.prefix_lists) THEN 0 ELSE Len(Unwrap(a.prefix_lists))
         IN  /\ (IsNone(a.next_token) /\ n = 1) =>
                  /\ fetch.pc \in {"entries", "done"}
                  /\ fetch.mpl = Unwrap(a.prefix_lists)[1]
                  /\ (fetch.pc = "done" /\ ~fetch.result.ok) => fetch.calls # <<>>
             /\ (IsSome(a.next_token) \/ n >= 2) =>
                  /\ fetch.pc = "done" /\ fetch.calls = <<>>
                  /\ fetch.result = [ok |-> FALSE, err |-> "CardinalityTooMany"]
             /\ (IsNone(a.next_token) /\ n = 0) =>
                  /\ fetch.pc = "done" /\ fetch.calls = <<>>
                  /\ fetch.result = [ok |-> FALSE, err |-> "CardinalityNone"]
             /\ IsSome(fetch.only_item) =>
                  Unwrap(fetch.only_item) =
                    IF n = 1 THEN [ok |-> TRUE, item |-> Unwrap(a.prefix_lists)[1]]
                    ELSE IF n >= 2 THEN [ok |-> FALSE, err |-> "CardinalityTooMany"]
                    ELSE [ok |-> FALSE, err |-> "CardinalityNone"]
    /\ IsSome(fetch.answer) /\ ~Unwrap(fetch.answer).ok =>
         fetch.pc = "done" /\ fetch.calls = <<>> /\ ~fetch.result.ok

\* C6 witness: describe answered two lists, both functions said "too many",
\* and no entries were requested
C6_Witness ==
    /\ IsSome(fetch.answer) /\ Unwrap(fetch.answer).ok
    /\ IsNone(Unwrap(fetch.answer).next_token)
    /\ IsSome(Unwrap(fetch.answer).prefix_lists)
    /\ Len(Unwrap(Unwrap(fetch.answer).prefix_lists)) = 2
    /\ fetch.result = [ok |-> FALSE, err |-> "CardinalityTooMany"]
    /\ fetch.only_item = Some([ok |-> FALSE, err |-> "CardinalityTooMany"])
    /\ fetch.calls = <<>>

(***************************************************************************)
(* src/aws/error.rs and src/aws/ec2.rs: the error classifier               *)
(***************************************************************************)
\* the vendor error codes a body may carry; the last two are not in the table
ErrorCodes == { "InvalidPermission.Duplicate", "InvalidPermission.Malformed",
                "RulesPerSecurityGroupLimitExceeded",
                "invalidpermission.duplicate", "InvalidGroup.NotFound" }

\* a child of the Errors node: its Code node and its Message node, each absent
\* (NoneV), present without text (Some(NoneV)) or present with text
ErrorChildren ==
    [ code    : { NoneV, Some(NoneV) } \cup { Some(Some(c)) : c \in ErrorCodes },
      message : { NoneV, Some(Some("already exists")) } ]

\* the body of a response: bytes that are not UTF-8, text that is not XML (the
\* empty body is), XML without Errors node, XML with an Errors node
Bodies ==
    { [kind |-> k, errors |-> NoneV] : k \in {"not_utf8", "not_xml", "xml"} }
    \cup
    { [kind |-> "xml", errors |-> Some(cs)] : cs \in SeqsUpTo(ErrorChildren, MaxErrors) }

Statuses == { 400, 403, 500 }

NoResponse == [status |-> 0, body |-> [kind |-> "none", errors |-> NoneV]]

\* rusoto_core::RusotoError<E>: Unknown(BufferedHttpResponse), Service(E), and
\* the variants that carry neither (Credentials, HttpDispatch, ...)
RusotoErrors ==
    { [variant |-> "Unknown", response |-> [status |-> st, body |-> b]] :
        st \in Statuses, b \in Bodies }
    \cup
    { [variant |-> v, response |-> NoResponse] : v \in {"Service", "Credentials", "HttpDispatch"} }

\* a panic (an unwrap on None or Err) in place of a value
Panic == [panic |-> TRUE, variant |-> <<"panic">>, payload |-> NoResponse]
\* an error value: the path of enum variants and what the innermost one holds
Out(variant, payload) == [panic |-> FALSE, variant |-> variant, payload |-> payload]
\* the value v held by an outer enum variant
Wrap(outer, v) == IF v.panic THEN v ELSE [v EXCEPT !.variant = <<outer>> \o @]

\* impl From<BufferedHttpResponse> for HttpResponseDescription (error.rs and,
\* word for word, ec2.rs): four unwraps
HttpResponseDescription(hrd) ==
    IF hrd.body.kind = "not_utf8" THEN Panic           \* String::from_utf8(..).unwrap()
    ELSE IF hrd.body.kind # "xml" THEN Panic           \* Document::parse(..).unwrap()
    ELSE IF IsNone(hrd.body.errors) THEN Panic         \* find "Errors" .unwrap()
    ELSE LET children == Unwrap(hrd.body.errors)
         IN  IF \E i \in DOMAIN children :
                   IsNone(children[i].code) \/ IsNone(children[i].message)
             THEN Panic                                \* find "Code"/"Message" .unwrap()
             ELSE [ panic  |-> FALSE,
                    status |-> hrd.status,
                    errors |-> [ i \in DOMAIN children |->
                                   [ code    |-> Unwrap(children[i].code),
                                     message |-> Unwrap(children[i].message) ] ],
                    source |-> hrd ]

\* a plausible bug: the last of the stacked errors decides
sg_authorize_from_description_last(err) ==
    IF err.status # 400 THEN Out(<<"UnknownHttpError">>, err)
    ELSE IF err.errors = <<>> THEN Out(<<"UnknownHttpError">>, err)
    ELSE LET error_detail == err.errors[Len(err.errors)]
         IN  IF error_detail.code = Some("InvalidPermission.Duplicate")
             THEN Out(<<"DuplicateRule">>, err)
             ELSE IF error_detail.code = Some("InvalidPermission.Malformed")
             THEN Out(<<"MalformedRule">>, err)
             ELSE IF error_detail.code = Some("RulesPerSecurityGroupLimitExceeded")
             THEN Out(<<"RuleLimitExceeded">>, err)
             ELSE Out(<<"UnknownHttpError">>, err)

\* impl From<HttpResponseDescription> for SGAuthorizeIngressError
sg_authorize_from_description(err) ==
    IF err.status # 400 THEN Out(<<"UnknownHttpError">>, err)
    ELSE IF err.errors = <<>> THEN Out(<<"UnknownHttpError">>, err)
    ELSE LET error_detail == err.errors[1]
         IN  IF error_detail.code = Some("InvalidPermission.Duplicate")
             THEN Out(<<"DuplicateRule">>, err)
             ELSE IF error_detail.code = Some("InvalidPermission.Malformed")
             THEN Out(<<"MalformedRule">>, err)
             ELSE IF error_detail.code = Some("RulesPerSecurityGroupLimitExceeded")
             THEN Out(<<"RuleLimitExceeded">>, err)
             ELSE Out(<<"UnknownHttpError">>, err)

\* impl From<RusotoError<AuthorizeSecurityGroupIngressError>> for SGAuthorizeIngressError
sg_authorize_from_rusoto(err) ==
    IF err.variant = "Unknown"
    THEN LET d == HttpResponseDescription(err.response)
         IN  IF d.panic THEN Panic ELSE sg_authorize_from_description(d)
    ELSE Out(<<"Unknown">>, err)

\* the operations and the error type F of each
Operations == { "DescribeInstances", "DescribeSecurityGroups", "AuthorizeSecurityGroupIngress" }

\* F::from(RusotoError<E>): InstanceError, and SecurityGroupError for its two
\* operations
service_error_from(op, err) ==
    IF op = "DescribeInstances" THEN Out(<<"InstanceError::UnknownError">>, err)
    ELSE IF op = "DescribeSecurityGroups" THEN Out(<<"SecurityGroupError::UnknownError">>, err)
    ELSE Wrap("SecurityGroupError::AuthorizeIngressError", sg_authorize_from_rusoto(err))

\* impl From<RusotoError<E>> for AWSClientError<F>
aws_client_error_from(op, err) ==
    IF err.variant = "Unknown" /\ err.response.status = 403
    THEN LET d == HttpResponseDescription(err.response)
         IN  IF d.panic THEN Panic ELSE Out(<<"PermissionDenied">>, d)
    ELSE IF err.variant \in {"Unknown", "Service"}
    THEN Wrap("Service", service_error_from(op, err))
    ELSE Out(<<"Unknown">>, err)

\* impl From<RusotoError<DescribeInstancesError>> for EC2InstanceError (ec2.rs)
ec2_instance_error_from(err) ==
    IF err.variant = "Unknown" /\ err.response.status = 400
    THEN LET d == HttpResponseDescription(err.response)
         IN  IF d.panic THEN Panic ELSE Out(<<"DescribeInstancesBadRequest">>, d)
    ELSE IF err.variant = "Unknown" /\ err.response.status = 403
    THEN LET d == HttpResponseDescription(err.response)
         IN  IF d.panic THEN Panic ELSE Out(<<"DescribeInstancesPermissionDenied">>, d)
    ELSE Out(<<"DescribeInstancesUnknownError">>, err)

InitClassify ==
    /\ \E err \in RusotoErrors :
         cls = [ pc |-> "error", err |-> err, into |-> "", op |-> "", out |-> Panic ]
    /\ remote = RemoteStart(<<>>)
    /\ eng = IdleEng /\ fetch = IdleFetch /\ loop = IdleLoop /\ lookup = IdleLookup

\* err.into() where an SGAuthorizeIngressError is wanted
IntoSGAuthorizeIngressError ==
    /\ cls.pc = "error"
    /\ cls' = [ cls EXCEPT !.pc = "classified", !.into = "SGAuthorizeIngressError",
                           !.op = "AuthorizeSecurityGroupIngress",
                           !.out = sg_authorize_from_rusoto(cls.err) ]
    /\ UNCHANGED <<remote, eng, fetch, loop, lookup>>

\* err.into() where an AWSClientError<F> is wanted, F the error type of op
IntoAWSClientError ==
    /\ cls.pc = "error"
    /\ \E op \in Operations :
         cls' = [ cls EXCEPT !.pc = "classified", !.into = "AWSClientError",
                             !.op = op,
                             !.out = aws_client_error_from(op, cls.err) ]
    /\ UNCHANGED <<remote, eng, fetch, loop, lookup>>

\* err.into() where an EC2InstanceError is wanted
IntoEC2InstanceError ==
    /\ cls.pc = "error"
    /\ cls' = [ cls EXCEPT !.pc = "classified", !.into = "EC2InstanceError",
                           !.op = "DescribeInstances",
                           !.out = ec2_instance_error_from(cls.err) ]
    /\ UNCHANGED <<remote, eng, fetch, loop, lookup>>

NextClassify == IntoSGAuthorizeIngressError \/ IntoAWSClientError \/ IntoEC2InstanceError

SpecClassify == InitClassify /\ [][NextClassify]_vars

(***************************************************************************)
(* Properties of the classifier                                            *)
(***************************************************************************)
\* a body that is a vendor error body: XML with an Errors node whose children
\* all have a Code and a Message node
VendorErrorBody(b) ==
    /\ b.kind = "xml" /\ IsSome(b.errors)
    /\ \A i \in DOMAIN Unwrap(b.errors) :
         IsSome(Unwrap(b.errors)[i].code) /\ IsSome(Unwrap(b.errors)[i].message)

\* the (code, message) pairs of a vendor error body, in the order of the body
PairsOf(b) ==
    [ i \in DOMAIN Unwrap(b.errors) |->
        [ code    |-> Unwrap(b.errors)[i].code[1],
          message |-> Unwrap(b.errors)[i].message[1] ] ]

\* the table of the claim, on the status and the pairs
TableVariant(status, pairs) ==
    IF status = 400 /\ pairs # <<>> /\ pairs[1].code = Some("InvalidPermission.Duplicate")
    THEN "DuplicateRule"
    ELSE IF status = 400 /\ pairs # <<>> /\ pairs[1].code = Some("InvalidPermission.Malformed")
    THEN "MalformedRule"
    ELSE IF status = 400 /\ pairs # <<>>
              /\ pairs[1].code = Some("RulesPerSecurityGroupLimitExceeded")
    THEN "RuleLimitExceeded"
    ELSE "UnknownHttpError"

\* C9: an HTTP response with a vendor error body is classified from its status
\* and the code of the first error only: on status 400 the three codes of the
\* table give DuplicateRule, MalformedRule and RuleLimitExceeded; another first
\* code, a first code without text, no error at all or another status give
\* UnknownHttpError; the variant holds the parsed payload (status and every
\* pair); an error that is no HTTP response gives Unknown
C9_Classification ==
    (cls.pc = "classified" /\ cls.into = "SGAuthorizeIngressError") =>
      /\ (cls.err.variant = "Unknown" /\ VendorErrorBody(cls.err.response.body)) =>
           LET pairs == PairsOf(cls.err.response.body)
           IN  /\ ~cls.out.panic
               /\ cls.out.variant = << TableVariant(cls.err.response.status, pairs) >>
               /\ cls.out.payload.status = cls.err.response.status
               /\ cls.out.payload.errors = pairs
               /\ cls.out.payload.source = cls.err.response
      /\ (cls.err.variant # "Unknown") =>
           cls.out = Out(<<"Unknown">>, cls.err)

\* C9 witness: a 400 response with two stacked errors, the first an unknown
\* code and the second InvalidPermission.Duplicate, classified UnknownHttpError
C9_Witness ==
    /\ cls.pc = "classified" /\ cls.into = "SGAuthorizeIngressError"
    /\ cls.err.variant = "Unknown" /\ cls.err.response.status = 400
    /\ VendorErrorBody(cls.err.response.body)
    /\ Len(Unwrap(cls.err.response.body.errors)) = 2
    /\ Unwrap(cls.err.response.body.errors)[1].code = Some(Some("InvalidGroup.NotFound"))
    /\ Unwrap(cls.err.response.body.errors)[2].code = Some(Some("InvalidPermission.Duplicate"))
    /\ cls.out.variant = <<"UnknownHttpError">>

\* C10: an "unknown" HTTP response with status 403 is classified PermissionDenied
\* whatever its body, by AWSClientError<F> for every operation and by
\* EC2InstanceError
C10_PermissionDenied ==
    ( /\ cls.pc = "classified"
      /\ cls.into \in {"AWSClientError", "EC2InstanceError"}
      /\ cls.err.variant = "Unknown" /\ cls.err.response.status = 403 ) =>
      /\ ~cls.out.panic
      /\ cls.out.variant \in { <<"PermissionDenied">>, <<"DescribeInstancesPermissionDenied">> }

(***************************************************************************)
(* src/main.rs: the poll loop. The client calls it makes (get_prefix_list  *)
(* returning the list's description, modify_entries, wait_for_state and    *)
(* cleanup) are modelled on src/aws/mod.rs and on the specification.       *)
(***************************************************************************)
IpPool == { "1.2.3.4", "5.6.7.8" }

\* format!("{}/32", ip).parse::<IpNet>().unwrap()
Cidr32(ip) == ip \o "/32"

\* Option::iter().collect(): the set of the value, if any
OptSet(o) == IF IsSome(o) THEN { Unwrap(o) } ELSE {}

\* Consensus::get().await and consensus.v4(): a failure, no IPv4, an address
Detections ==
    { [ok |-> FALSE, v4 |-> NoneV], [ok |-> TRUE, v4 |-> NoneV] }
    \cup
    { [ok |-> TRUE, v4 |-> Some(ip)] : ip \in IpPool }

\* AWSClient::modify_entries(&current_prefix_list, add, remove): one modify
\* request built from the description of the list the loop holds
modify_entries(r, mpl, add, remove) ==
    modify_managed_prefix_list(r, PrefixList(mpl, <<>>), Some(add), Some(remove))

\* AWSClient::cleanup(&prefix_list_id): one reconciliation with the empty
\* desired set on a snapshot fetched for it; nothing to do is a success
cleanup(r) ==
    { [ remote |-> r, ok |-> FALSE, rpc |-> <<>>, pl |-> SnapshotOf(r) ] }
    \cup
    { [ remote |-> o.remote,
        ok     |-> o.result.ok \/ o.result.err = "NothingToDo",
        rpc    |-> o.rpc,
        pl     |-> SnapshotOf(r) ] : o \in update_ips(r, SnapshotOf(r), {}) }

\* what is kept of one passage through the timer branch
NoTick == [ outcome |-> "none", detected |-> NoneV ]

LoopStart(cleanup_mode) ==
    [ pc                  |-> "start",
      cleanup_mode        |-> cleanup_mode,    \* config.cleanup
      current_cidr        |-> NoneV,
      current_prefix_list |-> [version |-> NoneV, state |-> NoneV],
      new_cidr            |-> NoneV,           \* new_cidr of the tick under way
      tick_ready          |-> FALSE,           \* timer.tick() is ready
      ctrl_c_ready        |-> FALSE,           \* ctrl_c() is ready
      ticks               |-> 0,               \* ticks the timer fired
      result              |-> "",              \* what work returned
      exit_by             |-> "",              \* the statement work returned from
      cleanups            |-> 0,               \* calls of cleanup
      last_modify         |-> NoneV,           \* the last modify request sent
      last_tick           |-> NoneV,           \* the last passage through the timer branch
      other_writers       |-> FALSE ]          \* somebody else wrote the list

\* the lists the loop may find at start-up: the empty list, and a list with one
\* entry, which carries the tag (left by an earlier run), the tag in another
\* case, or another description
LoopLists ==
    { <<>> }
    \cup
    { << [cidr |-> Some(c), description |-> Some(d)] >> :
        c \in CidrPool, d \in DescPool \ { <<"t">> } }

InitLoop ==
    /\ \E es \in LoopLists : remote = RemoteStart(es)
    /\ \E cleanup_mode \in BOOLEAN : loop = LoopStart(cleanup_mode)
    /\ eng = IdleEng /\ fetch = IdleFetch /\ cls = IdleCls /\ lookup = IdleLookup

\* work returns
Exited(l, result) == [ l EXCEPT !.pc = "exited", !.result = result ]

\* work returns from the statement `by`
ExitedBy(l, result, by) == [ Exited(l, result) EXCEPT !.exit_by = by ]

\* the record of the modify request of rpc, if any, sent against remote r
ModifySent(l, r, snapshot, rpc, by) ==
    IF rpc = <<>> THEN l
    ELSE [ l EXCEPT !.last_modify =
             Some([ req            |-> rpc[1].req,
                    snapshot       |-> snapshot,
                    remote_version |-> RemoteVersion(r),
                    by             |-> by ]) ]

\* the record of a passage through the timer branch that started in l
TickRecord(l, consensus, detected, rpc, outcome) ==
    Some([ consensus           |-> consensus,
           detected            |-> detected,
           current_cidr        |-> l.current_cidr,
           current_prefix_list |-> l.current_prefix_list,
           ctrl_c_ready        |-> l.ctrl_c_ready,
           rpc                 |-> rpc,
           outcome             |-> outcome,
           prev                |-> IF IsNone(l.last_tick) THEN NoTick
                                   ELSE [ outcome  |-> Unwrap(l.last_tick).outcome,
                                          detected |-> Unwrap(l.last_tick).detected ] ])

\* the passage under way ends with outcome
TickOutcome(l, outcome) == [ l EXCEPT !.last_tick[1].outcome = outcome ]

\* a plausible bug: no stability check
tick_always(l, r, consensus, notified) ==
    IF ~consensus.ok \/ IsNone(consensus.v4)
    THEN { [ remote |-> r,
             loop   |-> LET t == [ l EXCEPT !.last_tick =
                                     TickRecord(l, consensus, NoneV, <<>>, "no_address") ]
                        IN  IF notified THEN t
                            ELSE ExitedBy(TickOutcome(t, "notify_failed"), "err", "notify") ] }
    ELSE LET new_cidr == Some(Cidr32(Unwrap(consensus.v4)))
         IN  { [ remote |-> o.remote,
                 loop   |-> LET sent == ModifySent(l, r, l.current_prefix_list, o.rpc, "tick")
                            IN  IF o.result.ok
                                THEN [ sent EXCEPT
                                         !.pc = "wait_for_state",
                                         !.new_cidr = new_cidr,
                                         !.last_tick = TickRecord(l, consensus, new_cidr,
                                                                  o.rpc, "modified") ]
                                ELSE [ sent EXCEPT
                                         !.current_cidr = new_cidr,
                                         !.last_tick = TickRecord(l, consensus, new_cidr,
                                                                  o.rpc, "modify_failed") ] ] :
                 o \in modify_entries(r, l.current_prefix_list,
                                      OptSet(new_cidr), OptSet(l.current_cidr)) }

\* work, the timer branch of the select up to the answer of modify_entries
tick(l, r, consensus, notified) ==
    IF ~consensus.ok \/ IsNone(consensus.v4)
    THEN { [ remote |-> r,
             loop   |-> LET t == [ l EXCEPT !.last_tick =
                                     TickRecord(l, consensus, NoneV, <<>>, "no_address") ]
                        IN  IF notified THEN t
                            ELSE ExitedBy(TickOutcome(t, "notify_failed"), "err", "notify") ] }
    ELSE LET new_cidr == Some(Cidr32(Unwrap(consensus.v4)))
         IN  IF new_cidr = l.current_cidr
             THEN { [ remote |-> r,
                      loop   |-> [ l EXCEPT !.last_tick =
                                     TickRecord(l, consensus, new_cidr, <<>>, "unchanged") ] ] }
             ELSE { [ remote |-> o.remote,
                      loop   |-> LET sent == ModifySent(l, r, l.current_prefix_list, o.rpc, "tick")
                                 IN  IF o.result.ok
                                     THEN [ sent EXCEPT
                                              !.pc = "wait_for_state",
                                              !.new_cidr = new_cidr,
                                              !.last_tick = TickRecord(l, consensus, new_cidr,
                                                                       o.rpc, "modified") ]
                                     ELSE [ sent EXCEPT
                                              !.current_cidr = new_cidr,
                                              !.last_tick = TickRecord(l, consensus, new_cidr,
                                                                       o.rpc, "modify_failed") ] ] :
                      o \in modify_entries(r, l.current_prefix_list,
                                           OptSet(new_cidr), OptSet(l.current_cidr)) }

\* a plausible bug: the loop keeps the snapshot it had
after_wait_keeps_snapshot(l, new_prefix_list, notified) ==
    IF ~notified THEN ExitedBy(TickOutcome(l, "notify_failed"), "err", "notify")
    ELSE [ TickOutcome(l, "updated") EXCEPT
             !.pc = "select",
             !.current_cidr = l.new_cidr,
             !.new_cidr = NoneV ]

\* work, the timer branch once wait_for_state returned Ok(new_prefix_list)
after_wait(l, new_prefix_list, notified) ==
    IF ~notified THEN ExitedBy(TickOutcome(l, "notify_failed"), "err", "notify")
    ELSE [ TickOutcome(l, "updated") EXCEPT
             !.pc = "select",
             !.current_prefix_list = new_prefix_list,
             !.current_cidr = l.new_cidr,
             !.new_cidr = NoneV ]

\* a plausible bug: no break after the cleanup of the ctrl_c branch
after_cleanup_no_break(l, r, o, by) ==
    IF o.ok /\ by = "ctrl_c"
    THEN [ ModifySent(l, r, o.pl.managed_prefix_list, o.rpc, "cleanup")
             EXCEPT !.cleanups = @ + 1, !.ctrl_c_ready = FALSE ]
    ELSE ExitedBy([ ModifySent(l, r, o.pl.managed_prefix_list, o.rpc, "cleanup")
                      EXCEPT !.cleanups = @ + 1 ],
                  IF o.ok THEN "ok" ELSE "err", by)

\* work once cleanup returned o, in cleanup mode or in the ctrl_c branch
after_cleanup(l, r, o, by) ==
    ExitedBy([ ModifySent(l, r, o.pl.managed_prefix_list, o.rpc, "cleanup")
                 EXCEPT !.cleanups = @ + 1 ],
             IF o.ok THEN "ok" ELSE "err", by)

\* work in cleanup mode: cleanup and return
CleanupMode ==
    /\ loop.pc = "start" /\ loop.cleanup_mode
    /\ \E o \in cleanup(remote) :
         /\ remote' = o.remote
         /\ loop' = after_cleanup(loop, remote, o, "cleanup_mode")
    /\ UNCHANGED <<eng, fetch, cls, lookup>>

\* work up to the loop: get_prefix_list(..).await?
GetPrefixList ==
    /\ loop.pc = "start" /\ ~loop.cleanup_mode
    /\ \E ok \in BOOLEAN :
         loop' = IF ok
                 THEN [ loop EXCEPT !.pc = "select",
                                    !.current_prefix_list = ManagedPrefixList(remote) ]
                 ELSE ExitedBy(loop, "err", "get_prefix_list")
    /\ UNCHANGED <<remote, eng, fetch, cls, lookup>>

\* the interval elapses
TimerFires ==
    /\ loop.pc \in {"select", "wait_for_state"}
    /\ ~loop.tick_ready
    /\ loop.ticks < MaxTicks
    /\ loop' = [ loop EXCEPT !.tick_ready = TRUE, !.ticks = @ + 1 ]
    /\ UNCHANGED <<remote, eng, fetch, cls, lookup>>

\* the interrupt signal arrives
CtrlC ==
    /\ loop.pc \in {"select", "wait_for_state"}
    /\ ~loop.ctrl_c_ready
    /\ loop' = [ loop EXCEPT !.ctrl_c_ready = TRUE ]
    /\ UNCHANGED <<remote, eng, fetch, cls, lookup>>

\* the select takes the timer branch
Tick ==
    /\ loop.pc = "select" /\ loop.tick_ready
    /\ \E consensus \in Detections, notified \in BOOLEAN :
         \E o \in tick(loop, remote, consensus, notified) :
           /\ loop' = [ o.loop EXCEPT !.tick_ready = FALSE ]
           /\ remote' = o.remote
    /\ UNCHANGED <<eng, fetch, cls, lookup>>

\* wait_for_state sees the list in state modify-complete
WaitForStateOk ==
    /\ loop.pc = "wait_for_state"
    /\ remote.state = "modify-complete"
    /\ \E notified \in BOOLEAN :
         loop' = after_wait(loop, ManagedPrefixList(remote), notified)
    /\ UNCHANGED <<remote, eng, fetch, cls, lookup>>

\* wait_for_state fails (a timeout, a failed describe): `?` returns the error
WaitForStateErr ==
    /\ loop.pc = "wait_for_state"
    /\ loop' = ExitedBy(TickOutcome(loop, "wait_failed"), "err", "wait_for_state")
    /\ UNCHANGED <<remote, eng, fetch, cls, lookup>>

\* the select takes the ctrl_c branch: cleanup(..).await? and break
Cancel ==
    /\ loop.pc = "select" /\ loop.ctrl_c_ready
    /\ \E o \in cleanup(remote) :
         /\ remote' = o.remote
         /\ loop' = after_cleanup(loop, remote, o, "ctrl_c")
    /\ UNCHANGED <<eng, fetch, cls, lookup>>

\* another writer changes the list while the loop runs
OtherWriterDuringLoop ==
    /\ loop.pc \in {"start", "select"}
    /\ remote.state # "modify-in-progress"
    /\ RemoteVersion(remote) < MaxVersion
    /\ \E es \in OtherWriterEdits(RemoteEntries(remote)) :
         remote' = Written(remote, es)
    /\ loop' = [ loop EXCEPT !.other_writers = TRUE ]
    /\ UNCHANGED <<eng, fetch, cls, lookup>>

NextLoop ==
    \/ CleanupMode \/ GetPrefixList \/ TimerFires \/ CtrlC \/ Tick
    \/ WaitForStateOk \/ WaitForStateErr \/ Cancel
    \/ RemoteComplete \/ OtherWriterDuringLoop

SpecLoop == InitLoop /\ [][NextLoop]_vars

(***************************************************************************)
(* Properties of the poll loop                                             *)
(***************************************************************************)
LastModify == loop.last_modify[1]

\* C7: every modify request carries as current_version the version of the
\* snapshot handed to it; when nobody else writes the list, that version is the
\* remote list's current version at the time of the call, and the snapshot the
\* loop holds while it waits for the next tick is the list's current one
C7_VersionToken ==
    /\ IsSome(loop.last_modify) =>
         /\ LastModify.req.current_version = LastModify.snapshot.version
         /\ ~loop.other_writers =>
              LastModify.req.current_version = Some(LastModify.remote_version)
    /\ (loop.pc = "select" /\ ~loop.other_writers) =>
         loop.current_prefix_list = ManagedPrefixList(remote)

\* C7 witness: nobody else wrote, and the loop sent a second modify, that of
\* a tick which replaces the address added by the tick before
C7_Witness ==
    /\ IsSome(loop.last_modify)
    /\ ~loop.other_writers
    /\ LastModify.by = "tick"
    /\ LastModify.remote_version = 2
    /\ LastModify.req.current_version = Some(2)
    /\ Unwrap(LastModify.req.remove_entries) # {}
    /\ loop.pc = "wait_for_state"

(***************************************************************************)
(* Totality of the classifier                                              *)
(***************************************************************************)
\* C11: an HTTP response with status 400 whose body is malformed or unexpected
\* (not UTF-8, not XML, without Errors node, an error child without Code or
\* Message) is classified as an unknown error, by every conversion; the
\* conversion never panics
C11_Total ==
    ( /\ cls.pc = "classified"
      /\ cls.err.variant = "Unknown" /\ cls.err.response.status = 400
      /\ ~VendorErrorBody(cls.err.response.body) ) =>
      /\ ~cls.out.panic
      /\ cls.out.variant[Len(cls.out.variant)] \in
           { "Unknown", "UnknownHttpError", "InstanceError::UnknownError",
             "SecurityGroupError::UnknownError", "DescribeInstancesUnknownError" }

LastTick == loop.last_tick[1]
Ticked == IsSome(loop.last_tick)

\* C12: on a tick where the detected address equals the last observed address
\* (current_cidr) the loop sends no modify and does not wait for a state; it
\* goes back to the select with current_cidr and the snapshot it held
C12_StabilityCheck ==
    (Ticked /\ IsSome(LastTick.detected) /\ LastTick.detected = LastTick.current_cidr) =>
      /\ LastTick.rpc = <<>>
      /\ LastTick.outcome = "unchanged"
      /\ loop.pc # "wait_for_state"
      /\ loop.exit_by \in {"", "ctrl_c"}
      /\ loop.current_cidr = LastTick.current_cidr
      /\ loop.current_prefix_list = LastTick.current_prefix_list

\* C12 witness: the address was added by one tick and detected again by the next
C12_Witness ==
    /\ Ticked
    /\ LastTick.prev.outcome = "updated"
    /\ IsSome(LastTick.detected)
    /\ LastTick.detected = LastTick.prev.detected
    /\ LastTick.detected = LastTick.current_cidr
    /\ LastTick.outcome = "unchanged"
    /\ loop.pc = "select"

\* C13: when the modify of a tick failed, the loop keeps running and the next
\* tick that detects the same address sends the modify again
C13_RetryNextTick ==
    /\ (Ticked /\ LastTick.outcome = "modify_failed") => loop.exit_by \in {"", "ctrl_c"}
    /\ ( /\ Ticked
         /\ LastTick.prev.outcome = "modify_failed"
         /\ IsSome(LastTick.detected)
         /\ LastTick.detected = LastTick.prev.detected ) =>
         /\ Len(LastTick.rpc) = 1
         /\ LastTick.rpc[1].op = "modify"
         /\ AddedCidrs(LastTick.rpc[1].req) = OptSet(LastTick.detected)

\* C14: an error (a timeout) of wait_for_state after a successful modify does
\* not end the loop: work has not returned, and the loop waits for the next tick
C14_WaitErrorContinues ==
    (Ticked /\ LastTick.outcome = "wait_failed") =>
      /\ loop.exit_by # "wait_for_state"
      /\ loop.result # "err"

C16_CancelWinsTies ==
    Ticked => ~LastTick.ctrl_c_ready

\* C17: a failure of notify is ignored: work does not return, and after a
\* successful update current_cidr and the snapshot are replaced as they are
\* when notify succeeds
C17_NotifyFailureIgnored ==
    (Ticked /\ LastTick.outcome = "notify_failed") =>
      /\ loop.exit_by # "notify"
      /\ loop.result # "err"
      /\ LastTick.rpc # <<>> => loop.current_cidr = LastTick.detected

(***************************************************************************)
(* Post-state of update_ips                                                *)
(***************************************************************************)
\* C18: every entry a modify request of update_ips adds carries the tag as its
\* description, every entry it removes is an owned CIDR of the snapshot (all of
\* them, and nothing added, when the desired set is empty); once the remote has
\* completed a modify it accepted, and nobody else wrote, the owned entries of
\* the list are exactly the desired set
C18_PostState ==
    Called =>
      /\ \A i \in DOMAIN Last.rpc :
           Last.rpc[i].op = "modify" =>
             /\ \A e \in Unwrap(Last.rpc[i].req.add_entries) :
                  e.description = Some(entry_description)
             /\ RemovedCidrs(Last.rpc[i].req) \subseteq Owned(Last.pl)
             /\ Last.ips = {} =>
                  /\ AddedCidrs(Last.rpc[i].req) = {}
                  /\ RemovedCidrs(Last.rpc[i].req) = Owned(Last.pl)
      /\ ( /\ Last.result.ok
           /\ eng.between # "other"
           /\ remote.state = "modify-complete"
           /\ RemoteVersion(remote) = Last.remote_version + 1 ) =>
           /\ Owned(SnapshotOf(remote)) = Last.ips
           /\ \A c \in Last.ips_to_add :
                \E i \in DOMAIN RemoteEntries(remote) :
                  RemoteEntries(remote)[i] =
                    [cidr |-> Some(c), description |-> Some(entry_description)]
           /\ \A c \in Last.ips_to_remove :
                \A i \in DOMAIN RemoteEntries(remote) : RemoteEntries(remote)[i].cidr # Some(c)

\* C18 witness: an IP rotation: the old address was owned, the new one is
\* desired, the modify was accepted and completed, and the list holds the new
\* address, tagged, and not the old one
C18_Witness ==
    /\ Called /\ Last.result.ok
    /\ eng.between = "none"
    /\ remote.state = "modify-complete"
    /\ RemoteVersion(remote) = Last.remote_version + 1
    /\ Last.ips = {"5.6.7.8/32"}
    /\ Owned(Last.pl) = {"1.2.3.4/32"}
    /\ Owned(SnapshotOf(remote)) = {"5.6.7.8/32"}
    /\ \A i \in DOMAIN RemoteEntries(remote) : RemoteEntries(remote)[i].cidr # Some("1.2.3.4/32")

(***************************************************************************)
(* src/aws/helpers.rs: ips_for_rule_in_sg                                  *)
(***************************************************************************)
\* IPRule: the rule of the tests, and one with another id
Rules ==
    { [ id |-> i, from_port |-> 10, to_port |-> 10, ip_protocol |-> "tcp" ] :
        i \in { "some description", "other" } }

\* rusoto_ec2::IpRange
IpRanges ==
    { [ cidr_ip |-> Some("1.1.1.1/32"), description |-> Some("some description") ],
      [ cidr_ip |-> Some("2.2.2.2/32"), description |-> Some("some description") ],
      [ cidr_ip |-> Some("3.3.3.3/32"), description |-> Some("other") ] }

\* ranges without CIDR or without description, among others
OddRanges ==
    { << [ cidr_ip |-> NoneV, description |-> Some("some description") ],
         [ cidr_ip |-> Some("1.1.1.1/32"), description |-> Some("some description") ] >>,
      << [ cidr_ip |-> Some("2.2.2.2/32"), description |-> NoneV ],
         [ cidr_ip |-> Some("3.3.3.3/32"), description |-> Some("other") ] >> }

\* rusoto_ec2::IpPermission: the ports and protocol of the rules with any
\* ranges, and permissions with another port, another protocol or no port,
\* holding a range that carries a rule's id
IpPermission(from_port, to_port, ip_protocol, ip_ranges) ==
    [ from_port |-> from_port, to_port |-> to_port,
      ip_protocol |-> ip_protocol, ip_ranges |-> ip_ranges ]
IpPermissions ==
    { IpPermission(Some(10), Some(10), Some("tcp"), rs) :
        rs \in { NoneV } \cup { Some(l) : l \in SeqsUpTo(IpRanges, MaxRanges) \cup OddRanges } }
    \cup
    { IpPermission(Some(10), Some(20), Some("tcp"), rs) :
        rs \in { Some(<< [ cidr_ip |-> Some("1.1.1.1/32"),
                            description |-> Some("some description") ] >>) } }
    \cup
    { IpPermission(Some(10), Some(10), Some("udp"), rs) :
        rs \in { Some(<< [ cidr_ip |-> Some("2.2.2.2/32"),
                            description |-> Some("some description") ] >>) } }
    \cup
    { IpPermission(NoneV, NoneV, NoneV, rs) :
        rs \in { NoneV, Some(<< [ cidr_ip |-> Some("3.3.3.3/32"),
                                   description |-> Some("other") ] >>) } }

\* rusoto_ec2::SecurityGroup
SecurityGroups ==
    { [ ip_permissions |-> ps ] :
        ps \in { NoneV } \cup { Some(l) : l \in SeqsUpTo(IpPermissions, MaxPerms) } }

\* impl PartialEq<IpPermission> for IPRule: same ports and protocol
rule_eq(rule, ip_permission) ==
    /\ ip_permission.from_port = Some(rule.from_port)
    /\ ip_permission.to_port = Some(rule.to_port)
    /\ ip_permission.ip_protocol = Some(rule.ip_protocol)

\* the inner closure: the CIDRs of the ranges of a permission that carry the id
RECURSIVE ranges_of(_, _)
ranges_of(rule, ip_range_vec) ==
    IF ip_range_vec = <<>> THEN <<>>
    ELSE LET ip_range == Head(ip_range_vec)
             found    == IF ip_range.description = Some(rule.id)
                         THEN ip_range.cidr_ip ELSE NoneV
         IN  found \o ranges_of(rule, Tail(ip_range_vec))

\* a plausible bug: every permission is looked at
RECURSIVE flat_map_any(_, _)
flat_map_any(rule, ip_permission_vec) ==
    IF ip_permission_vec = <<>> THEN <<>>
    ELSE LET ip_permission == Head(ip_permission_vec)
             here == IF IsNone(ip_permission.ip_ranges) THEN <<>>
                     ELSE ranges_of(rule, Unwrap(ip_permission.ip_ranges))
         IN  here \o flat_map_any(rule, Tail(ip_permission_vec))

\* filter(rule == permission) and flat_map over the permissions
RECURSIVE flat_map(_, _)
flat_map(rule, ip_permission_vec) ==
    IF ip_permission_vec = <<>> THEN <<>>
    ELSE LET ip_permission == Head(ip_permission_vec)
             here == IF ~rule_eq(rule, ip_permission) THEN <<>>
                     ELSE IF IsNone(ip_permission.ip_ranges) THEN <<>>
                     ELSE ranges_of(rule, Unwrap(ip_permission.ip_ranges))
         IN  here \o flat_map(rule, Tail(ip_permission_vec))

\* helpers::ips_for_rule_in_sg
ips_for_rule_in_sg(rule, sg) ==
    IF IsNone(sg.ip_permissions) THEN <<>>
    ELSE flat_map(rule, Unwrap(sg.ip_permissions))

InitLookup ==
    /\ \E rule \in Rules, sg \in SecurityGroups :
         lookup = [ pc |-> "call", rule |-> rule, sg |-> sg, result |-> <<>> ]
    /\ remote = RemoteStart(<<>>)
    /\ eng = IdleEng /\ fetch = IdleFetch /\ cls = IdleCls /\ loop = IdleLoop

\* ips_for_rule_in_sg(&rule, &sg)
IpsForRuleInSg ==
    /\ lookup.pc = "call"
    /\ lookup' = [ lookup EXCEPT !.pc = "returned",
                                 !.result = ips_for_rule_in_sg(lookup.rule, lookup.sg) ]
    /\ UNCHANGED <<remote, eng, fetch, cls, loop>>

NextLookup == IpsForRuleInSg

SpecLookup == InitLookup /\ [][NextLookup]_vars

\* the places <<i, j>> of the group whose range j of permission i has a CIDR
\* and the rule's id as description, permission i being equal to the rule
Places(rule, sg) ==
    IF IsNone(sg.ip_permissions) THEN {}
    ELSE LET ps == Unwrap(sg.ip_permissions)
         IN  { p \in (1..MaxPerms) \X (1..MaxRanges) :
                 /\ p[1] \in DOMAIN ps
                 /\ ps[p[1]].from_port = Some(rule.from_port)
                 /\ ps[p[1]].to_port = Some(rule.to_port)
                 /\ ps[p[1]].ip_protocol = Some(rule.ip_protocol)
                 /\ IsSome(ps[p[1]].ip_ranges)
                 /\ p[2] \in DOMAIN Unwrap(ps[p[1]].ip_ranges)
                 /\ Unwrap(ps[p[1]].ip_ranges)[p[2]].description = Some(rule.id)
                 /\ IsSome(Unwrap(ps[p[1]].ip_ranges)[p[2]].cidr_ip) }

\* place p comes before place q, or is q
NotAfter(p, q) == p[1] < q[1] \/ (p[1] = q[1] /\ p[2] <= q[2])

\* C19: ips_for_rule_in_sg returns, in the order of the group, the CIDRs of the
\* ranges whose description is the rule's id and whose permission is equal to
\* the rule: as many as there are such ranges, the k-th being the CIDR of the
\* k-th such range; nothing for a group without permissions, with an empty
\* permission list or with permissions that all differ from the rule
C19_IpsForRule ==
    lookup.pc = "returned" =>
      LET places == Places(lookup.rule, lookup.sg)
          ps     == Unwrap(lookup.sg.ip_permissions)
      IN  /\ Len(lookup.result) = Cardinality(places)
          /\ \A q \in places :
               lookup.result[Cardinality({ p \in places : NotAfter(p, q) })]
                 = Unwrap(Unwrap(ps[q[1]].ip_ranges)[q[2]].cidr_ip)
          /\ ( \/ IsNone(lookup.sg.ip_permissions)
               \/ \A i \in DOMAIN ps : ~( /\ ps[i].from_port = Some(lookup.rule.from_port)
                                          /\ ps[i].to_port = Some(lookup.rule.to_port)
                                          /\ ps[i].ip_protocol = Some(lookup.rule.ip_protocol) ) )
               => lookup.result = <<>>

\* C19 witness: a group whose first permission differs from the rule and holds
\* a range with the rule's id, and whose second permission is equal to the rule
\* and holds two ranges with the id; the result is their two CIDRs, in order
C19_Witness ==
    /\ lookup.pc = "returned"
    /\ lookup.rule.id = "some description"
    /\ IsSome(lookup.sg.ip_permissions)
    /\ Len(Unwrap(lookup.sg.ip_permissions)) = 2
    /\ Unwrap(lookup.sg.ip_permissions)[1].to_port = Some(20)
    /\ lookup.result = << "2.2.2.2/32", "1.1.1.1/32" >>

(***************************************************************************)
(* Convergence of the poll loop                                            *)
(***************************************************************************)
\* C20: when nobody else writes the list, after a tick whose modify and
\* wait_for_state succeeded the owned entries of the list are exactly the /32
\* of the address detected on that tick, whatever the list held at start-up,
\* and the modify of the tick removed every owned entry but that one
C20_Convergence ==
    ( /\ loop.pc = "select"
      /\ Ticked /\ LastTick.outcome = "updated"
      /\ ~loop.other_writers ) =>
      /\ Owned(SnapshotOf(remote)) = OptSet(LastTick.detected)
      /\ Owned(PrefixList(ManagedPrefixList(remote),
                          remote.versions[RemoteVersion(remote) - 1]))
           \ OptSet(LastTick.detected) \subseteq RemovedCidrs(LastTick.rpc[1].req)

(***************************************************************************)
(* Cleanup on exit                                                         *)
(***************************************************************************)
\* C21: when work has returned after the modify of its last tick was accepted
\* (an owned entry was added), whether through the ctrl_c branch or through an
\* error propagated out of the tick, cleanup has been called before
C21_CleanupOnExit ==
    ( /\ loop.pc = "exited"
      /\ Ticked
      /\ LastTick.rpc # <<>>
      /\ LastTick.outcome \in {"updated", "notify_failed", "wait_failed"} ) =>
      loop.cleanups >= 1

(***************************************************************************)
(* Snapshot consistency of get_prefix_list                                 *)
(***************************************************************************)
\* the list describe answered, when it answered exactly one
Described == Unwrap(Unwrap(fetch.answer).prefix_lists)[1]

\* C22: every list_entries request of get_prefix_list names the version that
\* describe returned, whatever the list's version at the time of the request;
\* the snapshot returned holds the described list and the entries of that
\* version, also when somebody else wrote the list in between; when describe
\* or a page request fails, the fetch ends there with that error and returns
\* no snapshot
C22_SnapshotConsistency ==
    /\ fetch.calls # <<>> =>
         /\ IsSome(fetch.answer) /\ Unwrap(fetch.answer).ok
         /\ fetch.mpl = Described
         /\ \A i \in DOMAIN fetch.calls :
              /\ fetch.calls[i].req.target_version = Described.version
              /\ Unwrap(Described.version) <= fetch.calls[i].remote_version
    /\ (fetch.pc = "done" /\ fetch.result.ok) =>
         /\ fetch.result.pl.managed_prefix_list = Described
         /\ fetch.result.pl.managed_prefix_entries
              = remote.versions[Unwrap(Described.version)]
         /\ \A i \in DOMAIN fetch.calls : fetch.calls[i].answer.ok
    /\ (IsSome(fetch.answer) /\ ~Unwrap(fetch.answer).ok) =>
         /\ fetch.pc = "done" /\ fetch.calls = <<>>
         /\ fetch.result = [ok |-> FALSE, err |-> Unwrap(fetch.answer).err]
    /\ \A i \in DOMAIN fetch.calls :
         ~fetch.calls[i].answer.ok =>
           /\ i = Len(fetch.calls)
           /\ fetch.pc = "done"
           /\ fetch.result = [ok |-> FALSE, err |-> fetch.calls[i].answer.err]

\* C22 witness: somebody else wrote the list between describe and the first
\* page request, and again between the first and the second page request; the
\* snapshot returned holds the two entries of the described version, which are
\* not the entries the list has now
C22_Witness ==
    /\ fetch.pc = "done" /\ fetch.result.ok
    /\ Len(fetch.calls) = 2
    /\ Unwrap(fetch.mpl.version) < fetch.calls[1].remote_version
    /\ fetch.calls[1].remote_version < fetch.calls[2].remote_version
    /\ Len(fetch.result.pl.managed_prefix_entries) = 2
    /\ fetch.result.pl.managed_prefix_entries # RemoteEntries(remote)

====
